---- MODULE Spec2Model ----
(***************************************************************************)
(* The evaluation pipeline of the Audio Flamingo runner:                   *)
(* audio_flamingo_runner.evaluate_folder and its three callers (a direct   *)
(* library call, the HTTP /evaluate handler of server.py, the CLI          *)
(* "evaluate" subcommand of cli.py).                                       *)
(*                                                                         *)
(* A text is a sequence of one-character strings.  A behaviour is one      *)
(* request against one corpus on disk: the corpus and the request are      *)
(* chosen in Init, the run itself is sequential.                           *)
(* Numbers that Python holds as floats (precision, recall, f1) are exact   *)
(* fractions <<numerator, denominator>> in lowest terms; IEEE rounding of  *)
(* the f1 expression is outside the model.                                 *)
(***************************************************************************)
EXTENDS Integers, Sequences, FiniteSets, TLC

\* ------------------------------------------------------------------ bounds

\* Longest prediction text of a one-file corpus.
MaxLen == 4
\* Longest reference text of a one-file corpus.
MaxRefLen == 3
\* Most entries in the audio directory of a many-file corpus.
MaxFiles == 3

\* ------------------------------------------------------------------ texts

\* A lower-case letter, a letter with a distinct lower-case form, whitespace.
Alphabet == {"a", "P", " "}

TextsUpTo(n) == UNION {[1..k -> Alphabet] : k \in 0..n}

\* The characters of the reference text of a one-file corpus: a lower-case
\* letter and whitespace.
RefAlphabet == {"p", " "}

RefTextsUpTo(n) == UNION {[1..k -> RefAlphabet] : k \in 0..n}

\* One character of str.lower().
LowerChar(c) == IF c = "P" THEN "p" ELSE c

\* A character matched by the regex class \s, stripped by str.strip().
IsSpace(c) == c = " "

\* lower with the case conversion left out.
lowerNone(text) == text

lower(text) == [k \in 1..Len(text) |-> LowerChar(text[k])]

RECURSIVE lstrip(_)
lstrip(text) ==
    IF text # <<>> /\ IsSpace(Head(text)) THEN lstrip(Tail(text)) ELSE text

RECURSIVE rstrip(_)
rstrip(text) ==
    IF text # <<>> /\ IsSpace(text[Len(text)])
    THEN rstrip(SubSeq(text, 1, Len(text) - 1))
    ELSE text

strip(text) == rstrip(lstrip(text))

\* CollapseWhitespace with the pattern \s in place of \s+: each whitespace
\* character becomes a space, runs keep their length.
CollapseEach(text) == [k \in 1..Len(text) |-> IF IsSpace(text[k]) THEN " " ELSE text[k]]

\* re.sub(r'\s+', ' ', text): every maximal run of whitespace becomes one space.
RECURSIVE CollapseWhitespace(_)
CollapseWhitespace(text) ==
    IF text = <<>> THEN <<>>
    ELSE IF IsSpace(Head(text))
         THEN <<" ">> \o CollapseWhitespace(lstrip(text))
         ELSE <<Head(text)>> \o CollapseWhitespace(Tail(text))

_normalize_text(text) == CollapseWhitespace(strip(lower(text)))

\* The comparison of evaluate_folder: both branches test equality.
MatchFlag(match_mode, pred_normalized, gt_normalized) ==
    IF match_mode = "exact"
    THEN (IF pred_normalized = gt_normalized THEN 1 ELSE 0)
    ELSE (IF pred_normalized = gt_normalized THEN 1 ELSE 0)

\* ------------------------------------------------------------------ fractions

RECURSIVE GCD(_, _)
GCD(a, b) == IF b = 0 THEN a ELSE GCD(b, a % b)

\* n / d for n >= 0, d > 0, in lowest terms.
Frac(n, d) == LET g == GCD(n, d) IN <<n \div g, d \div g>>

FZero == <<0, 1>>
FAdd(x, y) == Frac(x[1] * y[2] + y[1] * x[2], x[2] * y[2])
FMul(x, y) == Frac(x[1] * y[1], x[2] * y[2])
FDiv(x, y) == Frac(x[1] * y[2], x[2] * y[1])
FPos(x) == x[1] > 0

\* ------------------------------------------------------------------ corpus

\* File-name suffixes of directory entries; "" is a subdirectory's.
audio_extensions == {".wav", ".flac", ".mp3", ".m4a"}

SuffixLower(s) == IF s = ".MP3" THEN ".mp3" ELSE s

NoText == <<>>

\* A directory entry that is not an audio file: a .txt file, or a label
\* subdirectory (isDir) that holds one audio file of its own.
OtherEntries ==
    { [suffix |-> ".txt", isDir |-> FALSE, hasGt |-> FALSE, gt |-> NoText,
       out |-> NoText, fails |-> FALSE],
      [suffix |-> "", isDir |-> TRUE, hasGt |-> FALSE, gt |-> NoText,
       out |-> NoText, fails |-> FALSE] }

\* An audio file: hasGt says <stem>.txt exists in the reference directory and
\* gt is its content; out is the text the model generates for the file, and
\* fails says inference raises on it.
AudioEntries(suffixes, gts, outs) ==
    { [suffix |-> s, isDir |-> FALSE, hasGt |-> FALSE, gt |-> NoText,
       out |-> NoText, fails |-> FALSE] : s \in suffixes }
    \cup
    { [suffix |-> s, isDir |-> FALSE, hasGt |-> TRUE, gt |-> g,
       out |-> NoText, fails |-> TRUE] : s \in suffixes, g \in gts }
    \cup
    { [suffix |-> s, isDir |-> FALSE, hasGt |-> TRUE, gt |-> g,
       out |-> o, fails |-> FALSE] : s \in suffixes, g \in gts, o \in outs }

ShortTexts == {<<"a">>, <<"P", "a">>}

ShortEntries == OtherEntries \cup AudioEntries({".wav"}, ShortTexts, ShortTexts)

LongEntries == AudioEntries({".wav", ".MP3"}, RefTextsUpTo(MaxRefLen), TextsUpTo(MaxLen))

\* The listings of audio_dir: up to MaxFiles entries with short texts, or one
\* audio file with texts up to MaxLen / MaxRefLen.
Listings ==
    UNION {[1..n -> ShortEntries] : n \in 0..MaxFiles}
    \cup {<<e>> : e \in LongEntries}

Corpora ==
    { [audioDirExists |-> TRUE, gtDirExists |-> TRUE, files |-> fs] : fs \in Listings }
    \cup
    { [audioDirExists |-> TRUE, gtDirExists |-> FALSE, files |-> fs] :
        fs \in {l \in Listings : \A k \in 1..Len(l) : ~l[k].hasGt} }
    \cup
    { [audioDirExists |-> FALSE, gtDirExists |-> g, files |-> <<>>] : g \in BOOLEAN }

\* ------------------------------------------------------------------ requests

ValidModes == {"exact", "contains"}
Modes == ValidModes \cup {"fuzzy"}

Requests ==
    [surface : {"lib", "http"}, match_mode : Modes, gt_dir : {TRUE},
     use_folder_as_label : {FALSE}]
    \cup
    [surface : {"cli"}, match_mode : Modes, gt_dir : BOOLEAN,
     use_folder_as_label : BOOLEAN]

\* Positional parameters evaluate_folder accepts, and the number it requires.
EvaluateFolderParams == 6
EvaluateFolderRequired == 3
\* Positional arguments each caller passes.
CliArgs == 7
HttpArgs == 6

\* Python's binding of a call with n positional arguments to evaluate_folder.
Binds(n) == n >= EvaluateFolderRequired /\ n <= EvaluateFolderParams

\* ------------------------------------------------------------------ state

VARIABLES
    corpus,       \* the directories on disk
    req,          \* the request
    pc,           \* "idle" | "discover" | "loop" | "infer" | "returned" | "raised" | "done"
    audio_files,  \* evaluate_folder: indices into corpus.files, in listing order
    idx,          \* evaluate_folder: position of the loop in audio_files
    gt_text,      \* evaluate_folder: the reference text of the current item
    details,      \* evaluate_folder: the records so far
    tp,           \* evaluate_folder: the matches so far
    calls,        \* the files transcribe_file was called with, in call order
    warnings,     \* the files a "No ground truth found" warning was printed for
    result,       \* the value evaluate_folder returned
    error,        \* the exception in flight or delivered
    response      \* what the caller's surface produced

vars == <<corpus, req, pc, audio_files, idx, gt_text, details, tp, calls,
          warnings, result, error, response>>

NoResult == [kind |-> "none"]
NoError == [type |-> "none", file |-> 0]
NoResponse ==
    [kind |-> "none", code |-> 0, report |-> NoResult, file |-> NoResult,
     detail |-> NoError, summary_printed |-> FALSE]

Init ==
    /\ corpus \in Corpora
    /\ req \in Requests
    /\ pc = "idle"
    /\ audio_files = <<>>
    /\ idx = 0
    /\ gt_text = NoText
    /\ details = <<>>
    /\ tp = 0
    /\ calls = <<>>
    /\ warnings = <<>>
    /\ result = NoResult
    /\ error = NoError
    /\ response = NoResponse


\* ------------------------------------------------------------------ evaluate_folder

\* The entries of audio_dir whose lower-cased suffix is an audio extension, in
\* listing order.
RECURSIVE AudioFilesFrom(_, _)
AudioFilesFrom(files, k) ==
    IF k > Len(files) THEN <<>>
    ELSE IF SuffixLower(files[k].suffix) \in audio_extensions
         THEN <<k>> \o AudioFilesFrom(files, k + 1)
         ELSE AudioFilesFrom(files, k + 1)

AudioFiles(files) == AudioFilesFrom(files, 1)

\* gt_file.exists() for the audio file at index k of the listing.
GtExists(k) == corpus.gtDirExists /\ corpus.files[k].hasGt

\* The value returned when no audio file is found.
EmptyResult ==
    [kind |-> "report",
     summary |-> [count |-> 0, tp |-> 0, fp |-> 0, fn |-> 0,
                  precision |-> FZero, recall |-> FZero, f1 |-> FZero],
     details |-> <<>>]

\* The record appended for one scored item.
DetailRecord(k, pred_text, gt, match) ==
    [file |-> k, pred |-> pred_text, gt |-> gt, match |-> match]

\* FalseCount with the subtraction of the matches forgotten.
FalseCountAll(count, tpv) == count

FalseCount(count, tpv) == count - tpv

\* Precision with 1 as the value of the zero-denominator case.
PrecisionOneOnEmpty(tpv, fp) == IF (tpv + fp) > 0 THEN Frac(tpv, tpv + fp) ELSE <<1, 1>>

Precision(tpv, fp) == IF (tpv + fp) > 0 THEN Frac(tpv, tpv + fp) ELSE FZero

Recall(tpv, fn) == IF (tpv + fn) > 0 THEN Frac(tpv, tpv + fn) ELSE FZero

\* F1 without the factor 2.
F1NoFactor(precision, recall) ==
    IF FPos(FAdd(precision, recall))
    THEN FDiv(FMul(precision, recall), FAdd(precision, recall))
    ELSE FZero

F1(precision, recall) ==
    IF FPos(FAdd(precision, recall))
    THEN FDiv(FMul(FMul(<<2, 1>>, precision), recall), FAdd(precision, recall))
    ELSE FZero

\* The metrics computed after the loop and the value returned.
FinalResult(ds, tpv) ==
    LET count == Len(ds)
        fp == FalseCount(count, tpv)
        fn == FalseCount(count, tpv)
        precision == Precision(tpv, fp)
        recall == Recall(tpv, fn)
    IN [kind |-> "report",
        summary |-> [count |-> count, tp |-> tpv, fp |-> fp, fn |-> fn,
                     precision |-> precision, recall |-> recall,
                     f1 |-> F1(precision, recall)],
        details |-> ds]

Raise(type, k) == [type |-> type, file |-> k]

\* ------------------------------------------------------------------ responses

Response(kind, code, report, detail, printed) ==
    [kind |-> kind, code |-> code, report |-> report, file |-> report,
     detail |-> detail, summary_printed |-> printed]

\* HTTPException(status_code, detail): no report in the body.
HttpError(status, detail) == Response("http", status, NoResult, detail, FALSE)

\* sys.exit(code), or the interpreter's exit on an uncaught exception.
CliExit(code, detail) == Response("exit", code, NoResult, detail, FALSE)

\* ------------------------------------------------------------------ callers

\* A direct call of evaluate_folder(audio_dir, gt_dir, bundle, ..., match_mode).
LibEvaluate ==
    /\ pc = "idle"
    /\ req.surface = "lib"
    /\ pc' = "discover"
    /\ UNCHANGED <<corpus, req, audio_files, idx, gt_text, details, tp, calls,
                   warnings, result, error, response>>

\* HttpEvaluate without the check of the reference directory.
HttpEvaluateNoGtCheck ==
    /\ pc = "idle"
    /\ req.surface = "http"
    /\ IF ~corpus.audioDirExists
       THEN /\ response' = HttpError(400, Raise("AudioDirNotFound", 0))
            /\ pc' = "done"
            /\ error' = error
       ELSE IF ~Binds(HttpArgs)
       THEN /\ error' = Raise("TypeError", 0)
            /\ pc' = "raised"
            /\ response' = response
       ELSE /\ pc' = "discover"
            /\ UNCHANGED <<error, response>>
    /\ UNCHANGED <<corpus, req, audio_files, idx, gt_text, details, tp, calls,
                   warnings, result>>

\* POST /evaluate up to the call of evaluate_folder (the model is loaded).
HttpEvaluate ==
    /\ pc = "idle"
    /\ req.surface = "http"
    /\ IF ~corpus.audioDirExists
       THEN /\ response' = HttpError(400, Raise("AudioDirNotFound", 0))
            /\ pc' = "done"
            /\ error' = error
       ELSE IF ~corpus.gtDirExists
       THEN /\ response' = HttpError(400, Raise("GtDirNotFound", 0))
            /\ pc' = "done"
            /\ error' = error
       ELSE IF ~Binds(HttpArgs)
       THEN /\ error' = Raise("TypeError", 0)
            /\ pc' = "raised"
            /\ response' = response
       ELSE /\ pc' = "discover"
            /\ UNCHANGED <<error, response>>
    /\ UNCHANGED <<corpus, req, audio_files, idx, gt_text, details, tp, calls,
                   warnings, result>>

\* cli.py main() for "evaluate": argparse, evaluate_command's validation and
\* its call of runner.evaluate_folder.
CliEvaluate ==
    /\ pc = "idle"
    /\ req.surface = "cli"
    /\ IF req.match_mode \notin ValidModes
       THEN /\ response' = CliExit(2, Raise("ArgumentError", 0))
            /\ pc' = "done"
            /\ error' = error
       ELSE IF ~corpus.audioDirExists
       THEN /\ response' = CliExit(1, Raise("AudioDirNotFound", 0))
            /\ pc' = "done"
            /\ error' = error
       ELSE IF ~req.use_folder_as_label /\ ~req.gt_dir
       THEN /\ response' = CliExit(1, Raise("GtDirRequired", 0))
            /\ pc' = "done"
            /\ error' = error
       ELSE IF ~req.use_folder_as_label /\ ~corpus.gtDirExists
       THEN /\ response' = CliExit(1, Raise("GtDirNotFound", 0))
            /\ pc' = "done"
            /\ error' = error
       ELSE IF ~Binds(CliArgs)
       THEN /\ error' = Raise("TypeError", 0)
            /\ pc' = "raised"
            /\ response' = response
       ELSE /\ pc' = "discover"
            /\ UNCHANGED <<error, response>>
    /\ UNCHANGED <<corpus, req, audio_files, idx, gt_text, details, tp, calls,
                   warnings, result>>

\* ------------------------------------------------------------------ the run

\* evaluate_folder up to the loop: Path(gt_dir), iterdir(), the empty case.
Discover ==
    /\ pc = "discover"
    /\ IF ~req.gt_dir
       THEN /\ error' = Raise("TypeError", 0)
            /\ pc' = "raised"
            /\ UNCHANGED <<audio_files, idx, result>>
       ELSE IF ~corpus.audioDirExists
       THEN /\ error' = Raise("FileNotFoundError", 0)
            /\ pc' = "raised"
            /\ UNCHANGED <<audio_files, idx, result>>
       ELSE IF AudioFiles(corpus.files) = <<>>
       THEN /\ result' = EmptyResult
            /\ pc' = "returned"
            /\ UNCHANGED <<audio_files, idx, error>>
       ELSE /\ audio_files' = AudioFiles(corpus.files)
            /\ idx' = 1
            /\ pc' = "loop"
            /\ UNCHANGED <<result, error>>
    /\ UNCHANGED <<corpus, req, gt_text, details, tp, calls, warnings, response>>

\* One iteration for a file without a reference: the warning and `continue`.
LoopSkip ==
    /\ pc = "loop"
    /\ idx <= Len(audio_files)
    /\ ~GtExists(audio_files[idx])
    /\ warnings' = Append(warnings, audio_files[idx])
    /\ idx' = idx + 1
    /\ UNCHANGED <<corpus, req, pc, audio_files, gt_text, details, tp, calls,
                   result, error, response>>

\* LoopInfer with the inference call issued twice for the item.
LoopInferTwice ==
    /\ pc = "loop"
    /\ idx <= Len(audio_files)
    /\ GtExists(audio_files[idx])
    /\ gt_text' = corpus.files[audio_files[idx]].gt
    /\ calls' = calls \o <<audio_files[idx], audio_files[idx]>>
    /\ pc' = "infer"
    /\ UNCHANGED <<corpus, req, audio_files, idx, details, tp, warnings,
                   result, error, response>>

\* One iteration for a file with a reference, up to the call of
\* transcribe_file: the reference is read, the call starts.
LoopInfer ==
    /\ pc = "loop"
    /\ idx <= Len(audio_files)
    /\ GtExists(audio_files[idx])
    /\ gt_text' = corpus.files[audio_files[idx]].gt
    /\ calls' = Append(calls, audio_files[idx])
    /\ pc' = "infer"
    /\ UNCHANGED <<corpus, req, audio_files, idx, details, tp, warnings,
                   result, error, response>>

\* InferReturn with tp assigned the item's flag instead of increased by it.
InferReturnAssignTp ==
    /\ pc = "infer"
    /\ ~corpus.files[audio_files[idx]].fails
    /\ LET pred_text == corpus.files[audio_files[idx]].out
           pred_normalized == _normalize_text(pred_text)
           gt_normalized == _normalize_text(gt_text)
           match == MatchFlag(req.match_mode, pred_normalized, gt_normalized)
       IN /\ tp' = match
          /\ details' = Append(details,
                               DetailRecord(audio_files[idx], pred_text, gt_text, match))
    /\ idx' = idx + 1
    /\ pc' = "loop"
    /\ UNCHANGED <<corpus, req, audio_files, gt_text, calls, warnings, result,
                   error, response>>

\* transcribe_file returns: normalize, compare, count, append.
InferReturn ==
    /\ pc = "infer"
    /\ ~corpus.files[audio_files[idx]].fails
    /\ LET pred_text == corpus.files[audio_files[idx]].out
           pred_normalized == _normalize_text(pred_text)
           gt_normalized == _normalize_text(gt_text)
           match == MatchFlag(req.match_mode, pred_normalized, gt_normalized)
       IN /\ tp' = tp + match
          /\ details' = Append(details,
                               DetailRecord(audio_files[idx], pred_text, gt_text, match))
    /\ idx' = idx + 1
    /\ pc' = "loop"
    /\ UNCHANGED <<corpus, req, audio_files, gt_text, calls, warnings, result,
                   error, response>>

\* InferRaise with the failure caught per item and the loop continued.
InferRaiseIsolated ==
    /\ pc = "infer"
    /\ corpus.files[audio_files[idx]].fails
    /\ idx' = idx + 1
    /\ pc' = "loop"
    /\ UNCHANGED <<corpus, req, audio_files, gt_text, details, tp, calls,
                   warnings, result, error, response>>

\* transcribe_file raises: nothing in evaluate_folder catches it.
InferRaise ==
    /\ pc = "infer"
    /\ corpus.files[audio_files[idx]].fails
    /\ error' = Raise("InferenceError", audio_files[idx])
    /\ pc' = "raised"
    /\ UNCHANGED <<corpus, req, audio_files, idx, gt_text, details, tp, calls,
                   warnings, result, response>>

\* The loop is over: the metrics and the return statement.
Finish ==
    /\ pc = "loop"
    /\ idx > Len(audio_files)
    /\ result' = FinalResult(details, tp)
    /\ pc' = "returned"
    /\ UNCHANGED <<corpus, req, audio_files, idx, gt_text, details, tp, calls,
                   warnings, error, response>>

\* The caller's code after evaluate_folder returned.
Return ==
    /\ pc = "returned"
    /\ response' =
         IF req.surface = "http" THEN Response("http", 200, result, NoError, FALSE)
         ELSE IF req.surface = "cli" THEN Response("exit", 0, result, NoError, TRUE)
         ELSE Response("value", 0, result, NoError, FALSE)
    /\ pc' = "done"
    /\ UNCHANGED <<corpus, req, audio_files, idx, gt_text, details, tp, calls,
                   warnings, result, error>>

\* An exception leaves evaluate_folder (or its call): /evaluate's except
\* clause answers 500 with str(e); the CLI and a direct caller do not catch.
Propagate ==
    /\ pc = "raised"
    /\ response' =
         IF req.surface = "http" THEN HttpError(500, error)
         ELSE IF req.surface = "cli" THEN CliExit(1, error)
         ELSE Response("exception", 0, NoResult, error, FALSE)
    /\ pc' = "done"
    /\ UNCHANGED <<corpus, req, audio_files, idx, gt_text, details, tp, calls,
                   warnings, result, error>>

Next ==
    \/ LibEvaluate
    \/ HttpEvaluate
    \/ CliEvaluate
    \/ Discover
    \/ LoopSkip
    \/ LoopInfer
    \/ InferReturn
    \/ InferRaise
    \/ Finish
    \/ Return
    \/ Propagate

Spec == Init /\ [][Next]_vars

\* ------------------------------------------------------------------ claims

\* The audio files of the listing, and those with a reference file.
IsAudio(k) == SuffixLower(corpus.files[k].suffix) \in audio_extensions
Discovered == {k \in 1..Len(corpus.files) : IsAudio(k)}
Paired == {k \in Discovered : corpus.gtDirExists /\ corpus.files[k].hasGt}

\* evaluate_folder is what runs the request (the CLI's call never binds).
RunsEvaluateFolder == req.surface \in {"lib", "http"}

IsSubstring(needle, hay) ==
    \E k \in 0..(Len(hay) - Len(needle)) : SubSeq(hay, k + 1, k + Len(needle)) = needle

\* C1: under match_mode "contains" every record's match flag is 1 exactly
\* when the normalized reference is a contiguous substring of the normalized
\* prediction.
C1_ContainsIsSubstring ==
    req.match_mode = "contains" =>
        \A i \in 1..Len(details) :
            (details[i].match = 1) <=>
                IsSubstring(_normalize_text(details[i].gt),
                            _normalize_text(details[i].pred))

\* C2: a request with a match mode other than "exact" or "contains" makes no
\* inference call and produces no summary.
C2_UnknownModeFailsFast ==
    (RunsEvaluateFolder /\ req.match_mode \notin ValidModes) =>
        (calls = <<>> /\ result = NoResult)

\* The skipped-items report of a returned value (the value has none when it
\* has no such field).
SkippedReport(r) == IF "skipped" \in DOMAIN r THEN r.skipped ELSE <<>>

\* C3: in the returned value, the scored records and the reported skips
\* together account for every discovered audio file.
C3_EveryFileReported ==
    result # NoResult =>
        Len(result.details) + Len(SkippedReport(result)) = Cardinality(Discovered)

MatchCount(ds, flag) == Cardinality({i \in 1..Len(ds) : ds[i].match = flag})

\* C4: in the returned summary count is the number of scored items, which is
\* the number of audio files with a reference; tp is the number of records
\* with match 1, fp and fn each the number with match 0; count = tp + fp and
\* fp = fn.
C4_CountersCountScoredItems ==
    result # NoResult =>
        LET s == result.summary
            ds == result.details
        IN /\ s.count = Len(ds)
           /\ s.count = Cardinality(Paired)
           /\ s.tp = MatchCount(ds, 1)
           /\ s.fp = MatchCount(ds, 0)
           /\ s.fn = MatchCount(ds, 0)
           /\ s.count = s.tp + s.fp
           /\ s.fp = s.fn

\* A run that skipped one file and scored a match and a non-match.
C4_Witness ==
    /\ result # NoResult
    /\ warnings # <<>>
    /\ result.summary.tp >= 1
    /\ result.summary.fp >= 1

\* x = n / d, for a fraction x and integers n >= 0, d > 0.
FracIs(x, n, d) == x[2] > 0 /\ x[1] * d = n * x[2]

\* C5: precision = tp/(tp+fp), recall = tp/(tp+fn), f1 =
\* 2*precision*recall/(precision+recall), each 0 when its denominator is 0;
\* two matches of three give 2/3 for all, no match gives 0 for all.
C5_MetricsFormulas ==
    result # NoResult =>
        LET s == result.summary
            p == s.precision
            r == s.recall
            f == s.f1
        IN /\ IF s.tp + s.fp > 0 THEN FracIs(p, s.tp, s.tp + s.fp) ELSE p = FZero
           /\ IF s.tp + s.fn > 0 THEN FracIs(r, s.tp, s.tp + s.fn) ELSE r = FZero
           /\ IF p[1] * r[2] + r[1] * p[2] > 0
              THEN /\ f[2] > 0
                   /\ f[1] * (p[1] * r[2] + r[1] * p[2]) = 2 * p[1] * r[1] * f[2]
              ELSE f = FZero
           /\ (s.count = 3 /\ s.tp = 2) => (p = <<2, 3>> /\ r = <<2, 3>> /\ f = <<2, 3>>)
           /\ (s.count > 0 /\ s.tp = 0) => (p = FZero /\ r = FZero /\ f = FZero)

\* Three scored items, two of them matches.
C5_Witness ==
    /\ result # NoResult
    /\ result.summary.count = 3
    /\ result.summary.tp = 2
    /\ result.summary.f1 = <<2, 3>>

ZeroSummary ==
    [count |-> 0, tp |-> 0, fp |-> 0, fn |-> 0,
     precision |-> <<0, 1>>, recall |-> <<0, 1>>, f1 |-> <<0, 1>>]

\* C6: when the audio directory holds no audio file with a reference,
\* evaluate_folder raises nothing, makes no inference call, and returns the
\* all-zero summary with an empty details list.
C6_ZeroItemsSafe ==
    (RunsEvaluateFolder /\ corpus.audioDirExists /\ Paired = {}) =>
        /\ pc # "raised"
        /\ calls = <<>>
        /\ pc = "returned" =>
              /\ result # NoResult
              /\ result.summary = ZeroSummary
              /\ result.details = <<>>
        /\ (pc = "done" /\ response.code # 400) =>
              /\ response.report # NoResult
              /\ response.report.summary = ZeroSummary
              /\ response.report.details = <<>>

\* Every discovered file was skipped, and the run returned.
C6_Witness ==
    /\ pc = "returned"
    /\ Len(warnings) >= 2
    /\ Len(warnings) = Cardinality(Discovered)
    /\ result.summary = ZeroSummary

\* The listing position the loop has dealt with, the item in flight included.
Reached ==
    IF pc = "returned" \/ (pc = "done" /\ result # NoResult) THEN Len(corpus.files)
    ELSE IF pc = "loop" /\ idx > Len(audio_files) THEN Len(corpus.files)
    ELSE IF pc = "loop" THEN audio_files[idx] - 1
    ELSE IF pc \in {"infer", "raised", "done"} /\ idx >= 1 THEN audio_files[idx]
    ELSE 0

InFlight == pc = "infer" \/ (pc \in {"raised", "done"} /\ error.type = "InferenceError")

\* C7: transcribe_file is called once for each file with a reference that the
\* loop has reached, never for a skipped file, in listing order; while a call
\* is in flight every earlier call has its record in details, and a call
\* starts only when none is in flight.
C7_OneSequentialCallPerPairedItem ==
    /\ \A i, j \in 1..Len(calls) : i < j => calls[i] < calls[j]
    /\ {calls[i] : i \in 1..Len(calls)} = {k \in Paired : k <= Reached}
    /\ Len(details) = Len(calls) - (IF InFlight THEN 1 ELSE 0)
    /\ \A i \in 1..Len(details) : details[i].file = calls[i]
    /\ {warnings[i] : i \in 1..Len(warnings)} \cap {calls[i] : i \in 1..Len(calls)} = {}

\* A completed run with two inference calls and a skipped file between or
\* around them.
C7_Witness ==
    /\ pc = "returned"
    /\ Len(calls) >= 2
    /\ Len(warnings) >= 1

LabelDirs == {k \in 1..Len(corpus.files) : corpus.files[k].isDir}

\* C9: with --use-folder-as-label every audio file under a label
\* subdirectory is scored and appears in the result.
C9_FolderLabelFilesScored ==
    (/\ req.surface = "cli"
     /\ req.use_folder_as_label
     /\ req.match_mode \in ValidModes
     /\ corpus.audioDirExists
     /\ LabelDirs # {}
     /\ pc = "done") =>
        /\ response.report # NoResult
        /\ \A k \in LabelDirs :
              \E i \in 1..Len(response.report.details) :
                  response.report.details[i].file = k

\* C10: the CLI evaluate subcommand with existing directories, a valid match
\* mode and no failing inference ends with the report on standard output and
\* in the output file, the summary printed, and exit code zero.
C10_CliReportsAndExitsZero ==
    (/\ req.surface = "cli"
     /\ req.match_mode \in ValidModes
     /\ ~req.use_folder_as_label
     /\ req.gt_dir
     /\ corpus.audioDirExists
     /\ corpus.gtDirExists
     /\ \A k \in Paired : ~corpus.files[k].fails
     /\ pc = "done") =>
        /\ response.kind = "exit"
        /\ response.code = 0
        /\ response.report # NoResult
        /\ response.file # NoResult
        /\ response.summary_printed

\* The request names a directory that is missing: the audio directory, or
\* the reference directory (for the CLI: with the folder-label flag off, the
\* reference directory not given or not there).
MissingDirectory ==
    \/ /\ req.surface = "cli"
       /\ \/ ~corpus.audioDirExists
          \/ ~req.use_folder_as_label /\ (~req.gt_dir \/ ~corpus.gtDirExists)
    \/ /\ req.surface = "http"
       /\ (~corpus.audioDirExists \/ ~corpus.gtDirExists)

NormalizedInputs ==
    {details[i].pred : i \in 1..Len(details)} \cup {details[i].gt : i \in 1..Len(details)}

\* C12: for every text s that was normalized, normalizing the result again
\* changes nothing; the result neither starts nor ends with whitespace and
\* has no two adjacent whitespace characters; an empty or whitespace-only s
\* gives the empty text.
C12_NormalizeIdempotent ==
    \A s \in NormalizedInputs :
        LET n == _normalize_text(s)
        IN /\ _normalize_text(n) = n
           /\ n # <<>> => (~IsSpace(n[1]) /\ ~IsSpace(n[Len(n)]))
           /\ \A k \in 1..(Len(n) - 1) : ~(IsSpace(n[k]) /\ IsSpace(n[k + 1]))
           /\ (\A k \in 1..Len(s) : IsSpace(s[k])) => n = <<>>

\* A scored prediction with an upper-case letter and a run of two whitespace
\* characters between two letters.
C12_Witness ==
    \E i \in 1..Len(details) :
        LET s == details[i].pred
        IN /\ Len(s) = 4
           /\ ~IsSpace(s[1]) /\ IsSpace(s[2]) /\ IsSpace(s[3]) /\ ~IsSpace(s[4])
           /\ s[1] = "P"
           /\ Len(_normalize_text(s)) = 3

\* The words of a text: its maximal whitespace-free pieces, letters taken in
\* lower case.  cur is the word being read.
RECURSIVE WordsFrom(_, _)
WordsFrom(text, cur) ==
    IF text = <<>> THEN (IF cur = <<>> THEN <<>> ELSE <<cur>>)
    ELSE IF Head(text) = " "
         THEN (IF cur = <<>> THEN <<>> ELSE <<cur>>) \o WordsFrom(Tail(text), <<>>)
         ELSE WordsFrom(Tail(text),
                        Append(cur, IF Head(text) = "P" THEN "p" ELSE Head(text)))

Words(text) == WordsFrom(text, <<>>)

\* C13: under match_mode "exact" a record's match flag is 1 exactly when the
\* normalized prediction and reference are identical, which is exactly when
\* the two texts have the same words up to letter case (they differ only in
\* case, edge whitespace or the length of whitespace runs); the record keeps
\* the raw prediction and reference.
C13_ExactMatchesNormalized ==
    req.match_mode = "exact" =>
        \A i \in 1..Len(details) :
            LET d == details[i]
            IN /\ d.match \in {0, 1}
               /\ (d.match = 1) <=> (_normalize_text(d.pred) = _normalize_text(d.gt))
               /\ (d.match = 1) <=> (Words(d.pred) = Words(d.gt))
               /\ d.pred = corpus.files[d.file].out
               /\ d.gt = corpus.files[d.file].gt

\* An exact-mode match of a prediction in upper case with a two-space run
\* against a lower-case, single-spaced reference.
C13_Witness ==
    /\ req.match_mode = "exact"
    /\ \E i \in 1..Len(details) :
          /\ details[i].match = 1
          /\ details[i].pred = <<"P", " ", " ", "P">>
          /\ details[i].gt = <<"p", " ", "p">>

RECURSIVE MatchSum(_)
MatchSum(ds) == IF ds = <<>> THEN 0 ELSE ds[1].match + MatchSum(Tail(ds))

\* The files with a reference whose iteration of the loop is complete.
ScoredSoFar ==
    {k \in Paired : k <= Reached /\ ~(InFlight /\ k = audio_files[idx])}

DetailsInvariant ==
    /\ \A i \in 1..Len(details) : details[i].match \in {0, 1}
    /\ \A i, j \in 1..Len(details) : i < j => details[i].file < details[j].file
    /\ RunsEvaluateFolder => {details[i].file : i \in 1..Len(details)} = ScoredSoFar
    /\ tp = MatchSum(details)
    /\ 0 <= tp /\ tp <= Len(details)
    /\ result # NoResult =>
          /\ result.details = details
          /\ result.summary.count = Len(details)
          /\ result.summary.tp = tp

DetailsGrow ==
    /\ Len(details') >= Len(details)
    /\ SubSeq(details', 1, Len(details)) = details
    /\ tp' >= tp

\* C14: at every point of the loop and in the returned value, details has
\* one record per item scored so far, in listing order, each flag 0 or 1; tp
\* is the sum of the flags and lies between 0 and len(details); a step only
\* appends to details and never lowers tp; the returned count is
\* len(details).
C14_DetailsAndTpGrowTogether == [](DetailsInvariant) /\ [][DetailsGrow]_vars

\* Inside the loop, two items scored (one match, one not) and a further
\* audio file still to be processed.
C14_Witness ==
    /\ pc = "loop"
    /\ Len(details) = 2
    /\ tp = 1
    /\ details[1].match = 1
    /\ idx <= Len(audio_files)

====
